---- MODULE Spec2Model ----
(***************************************************************************)
(* Verification model of the Isolation game-playing agent                  *)
(* (src/game_agent.py and src/competition/game_agent.py): the depth-       *)
(* limited minimax and alpha-beta searches and the get_move driver with    *)
(* its deadline handling.                                                  *)
(*                                                                         *)
(* Time is counted in microseconds, so that the 0.001 ms literal of        *)
(* get_move is the integer 1.  Utilities are integers; float("inf") is     *)
(* the integer inf, larger than any heuristic score of the boards used.    *)
(***************************************************************************)
EXTENDS Integers, Sequences, FiniteSets, TLC

\* ------------------------------------------------------------------ bounds
Height == 3        \* rows of the board
Width == 4         \* columns of the board
MaxPlies == 3      \* moves applied to the board before the agent is asked
MaxDepth == 3      \* largest search_depth, and the cap on the iterative loop
MaxAbove == 6      \* longest finite run of readings above the threshold
MaxFault == 3      \* latest board call that may raise

\* --------------------------------------------------------- program constants
inf == 1000                  \* float("inf")
TIMER_THRESHOLD == 10000     \* timeout=10. ms
LOOP_THRESHOLD == 1          \* 0.001 ms
PLENTY == 99000              \* lambda: 99
SHORT == 5000                \* a reading below the threshold and above 0.001 ms

no_legal_moves == <<-1, -1>>
unbound == <<>>              \* a local name that was never assigned

\* ------------------------------------------------------- the board contract
Cells == (0 .. Height - 1) \X (0 .. Width - 1)

directions ==
    << <<-2, -1>>, <<-2, 1>>, <<-1, -2>>, <<-1, 2>>,
       <<1, -2>>, <<1, 2>>, <<2, -1>>, <<2, 1>> >>

inactive_player(game) == 3 - game.active

move_is_legal(game, move) == move \in Cells /\ move \notin game.blocked

\* the moves of `player`, in the board's direction order
get_legal_moves(game, player) ==
    LET at == game.loc[player]
        all == [i \in 1 .. Len(directions) |->
                   <<at[1] + directions[i][1], at[2] + directions[i][2]>>]
        ok(m) == move_is_legal(game, m)
    IN  SelectSeq(all, ok)

\* a new board: the active player stands on `move`, the turn has passed
forecast_move(game, move) ==
    [loc     |-> [game.loc EXCEPT ![game.active] = move],
     blocked |-> game.blocked \cup {move},
     active  |-> inactive_player(game)]

is_loser(game, player) ==
    player = game.active /\ get_legal_moves(game, game.active) = <<>>

is_winner(game, player) ==
    player = inactive_player(game) /\ get_legal_moves(game, game.active) = <<>>

utility(game, player) ==
    IF get_legal_moves(game, game.active) = <<>>
    THEN IF player = inactive_player(game) THEN inf ELSE -inf
    ELSE 0

\* ------------------------------------------------------------- heuristics
improved_score(game, player) ==
    Len(get_legal_moves(game, player)) - Len(get_legal_moves(game, 3 - player))

custom_score(game, player) ==
    IF is_loser(game, player) THEN -inf
    ELSE IF is_winner(game, player) THEN inf
    ELSE improved_score(game, player)

null_heuristic(game, player) == 0

ScoreFns == {"custom_score", "heuristic"}

\* self.score(game, player)
score(fn, game, player) ==
    IF fn = "custom_score" THEN custom_score(game, player)
    ELSE null_heuristic(game, player)

\* ------------------------------------------------- the search's environment
\* The deadline oracle time_left: `above` readings of PLENTY, then `at`
\* readings equal to the threshold, then `short` readings below it, then 0.
\* With `forever` the oracle never runs down (run()'s lambda: 99).
Oracles ==
    {[forever |-> TRUE, above |-> 0, at |-> 0, short |-> 0]} \cup
    [forever : {FALSE}, above : 0 .. MaxAbove, at : 0 .. 1, short : 0 .. 1]

reading(orc, q) ==
    IF orc.forever \/ q < orc.above THEN PLENTY
    ELSE IF q < orc.above + orc.at THEN TIMER_THRESHOLD
    ELSE IF q < orc.above + orc.at + orc.short THEN SHORT
    ELSE 0

\* env: the oracle, the board calls that raise, the readings taken so far (q),
\* the board calls made so far (n) and the log of every call made.
NewEnv(orc, fault) == [orc |-> orc, fault |-> fault, q |-> 0, n |-> 0, log |-> <<>>]

Ev(op, path, player, depth, mx, alpha, beta, val) ==
    [op |-> op, path |-> path, player |-> player, depth |-> depth, mx |-> mx,
     alpha |-> alpha, beta |-> beta, val |-> val]

\* self.time_left(): the next reading, logged
time_left(env, path, depth, mx, alpha, beta) ==
    LET v == reading(env.orc, env.q)
    IN  [val |-> v,
         env |-> [env EXCEPT !.q = @ + 1,
                             !.log = Append(@, Ev("time_left", path, 0, depth, mx, alpha, beta, v))]]

\* a call of a board operation (or of the score function), logged; a board
\* operation raises when it is the call the fault names
board_call(env, op, path, player, val) ==
    [ok  |-> env.n \notin env.fault,
     env |-> [env EXCEPT !.n = @ + 1,
                         !.log = Append(@, Ev(op, path, player, 0, TRUE, 0, 0, val))]]

score_call(env, path, player, val) ==
    [env EXCEPT !.log = Append(@, Ev("score", path, player, 0, TRUE, 0, 0, val))]

Return(u, m, env) == [st |-> "ok", u |-> u, m |-> m, env |-> env]
Raise(exc, env) == [st |-> exc, u |-> 0, m |-> no_legal_moves, env |-> env]

\* ---------------------------------------------------------------- minimax
\* mutant of timed_out: the node also aborts on a reading equal to the threshold
timed_out_at_threshold(t) == t <= TIMER_THRESHOLD

\* if self.time_left() < self.TIMER_THRESHOLD
timed_out(t) == t < TIMER_THRESHOLD

initial_utility(maximizing_player) == IF maximizing_player THEN -inf ELSE inf

\* mutant of current_player_of: the two layers are swapped
current_player_swapped(game, maximizing_player) ==
    IF maximizing_player THEN inactive_player(game) ELSE game.active

\* mutant of current_player_of: the active player on either layer
current_player_active(game, maximizing_player) == game.active

current_player_of(game, maximizing_player) ==
    IF maximizing_player THEN game.active ELSE inactive_player(game)

\* whether the forecast utility replaces the best one
improves(maximizing_player, forecast_utility, best_utility) ==
    IF maximizing_player THEN forecast_utility > best_utility
    ELSE forecast_utility < best_utility

RECURSIVE minimax(_, _, _, _, _, _)
RECURSIVE minimax_loop(_, _, _, _, _, _, _, _, _, _)

\* mutant of minimax: the depth is tested before the legal moves, so a node
\* without legal moves at depth 0 is scored (and its first move then missed)
minimax_depth_tested_first(fn, game, depth, maximizing_player, path, env) ==
    LET t == time_left(env, path, depth, maximizing_player, -inf, inf)
    IN  IF timed_out(t.val) THEN Raise("Timeout", t.env)
        ELSE
          LET current_player == current_player_of(game, maximizing_player)
              lm == board_call(t.env, "get_legal_moves", path, game.active, 0)
              remaining_legal_moves == get_legal_moves(game, game.active)
              sc == score_call(lm.env, path, current_player,
                               score(fn, game, current_player))
          IN  IF ~lm.ok THEN Raise("BoardError", lm.env)
              ELSE IF depth = 0
              THEN IF remaining_legal_moves = <<>> THEN Raise("IndexError", sc)
                   ELSE Return(score(fn, game, current_player),
                               remaining_legal_moves[1], sc)
              ELSE IF remaining_legal_moves = <<>>
              THEN LET ut == board_call(lm.env, "utility", path, current_player,
                                        utility(game, current_player))
                   IN  IF ~ut.ok THEN Raise("BoardError", ut.env)
                       ELSE Return(utility(game, current_player), no_legal_moves, ut.env)
              ELSE minimax_loop(fn, game, depth, maximizing_player, path,
                                remaining_legal_moves, 1,
                                initial_utility(maximizing_player), no_legal_moves,
                                lm.env)

\* the for loop of minimax from its i-th move on
minimax_loop(fn, game, depth, maximizing_player, path, moves, i, best_utility, best_move, env) ==
    IF i > Len(moves) THEN Return(best_utility, best_move, env)
    ELSE
      LET move == moves[i]
          fc == board_call(env, "forecast_move", path, game.active, 0)
      IN  IF ~fc.ok THEN Raise("BoardError", fc.env)
          ELSE
            LET r == minimax(fn, forecast_move(game, move), depth - 1,
                             ~maximizing_player, Append(path, move), fc.env)
            IN  IF r.st # "ok" THEN r
                ELSE IF improves(maximizing_player, r.u, best_utility)
                THEN minimax_loop(fn, game, depth, maximizing_player, path, moves,
                                  i + 1, r.u, move, r.env)
                ELSE minimax_loop(fn, game, depth, maximizing_player, path, moves,
                                  i + 1, best_utility, best_move, r.env)

minimax(fn, game, depth, maximizing_player, path, env) ==
    LET t == time_left(env, path, depth, maximizing_player, -inf, inf)
    IN  IF timed_out(t.val) THEN Raise("Timeout", t.env)
        ELSE
          LET current_player == current_player_of(game, maximizing_player)
              lm == board_call(t.env, "get_legal_moves", path, game.active, 0)
              remaining_legal_moves == get_legal_moves(game, game.active)
          IN  IF ~lm.ok THEN Raise("BoardError", lm.env)
              ELSE IF remaining_legal_moves = <<>>
              THEN LET ut == board_call(lm.env, "utility", path, current_player,
                                        utility(game, current_player))
                   IN  IF ~ut.ok THEN Raise("BoardError", ut.env)
                       ELSE Return(utility(game, current_player), no_legal_moves, ut.env)
              ELSE IF depth = 0
              THEN Return(score(fn, game, current_player), remaining_legal_moves[1],
                          score_call(lm.env, path, current_player,
                                     score(fn, game, current_player)))
              ELSE minimax_loop(fn, game, depth, maximizing_player, path,
                                remaining_legal_moves, 1,
                                initial_utility(maximizing_player), no_legal_moves,
                                lm.env)

\* -------------------------------------------------------------- alphabeta
Max(a, b) == IF a >= b THEN a ELSE b
Min(a, b) == IF a <= b THEN a ELSE b

\* mutant of cutoff: each layer compares with the other layer's bound
cutoff_wrong_bound(maximizing_player, best_utility, alpha, beta) ==
    IF maximizing_player THEN best_utility >= alpha ELSE best_utility <= beta

\* mutant of cutoff: the loop is never left early
cutoff_never(maximizing_player, best_utility, alpha, beta) == FALSE

\* mutant of cutoff: the loop goes on when the best utility equals the bound
cutoff_strict(maximizing_player, best_utility, alpha, beta) ==
    IF maximizing_player THEN best_utility > beta ELSE best_utility < alpha

\* whether the loop is left once the best utility was replaced
cutoff(maximizing_player, best_utility, alpha, beta) ==
    IF maximizing_player THEN best_utility >= beta ELSE best_utility <= alpha

RECURSIVE alphabeta(_, _, _, _, _, _, _, _)
RECURSIVE alphabeta_loop(_, _, _, _, _, _, _, _, _, _, _, _)

\* mutant of alphabeta_loop: on a cutoff the loop is left before the move is
\* recorded as the best one
alphabeta_loop_cutoff_drops_move(fn, game, depth, alpha, beta, maximizing_player, path, moves, i, best_utility, best_move, env) ==
    IF i > Len(moves) THEN Return(best_utility, best_move, env)
    ELSE
      LET move == moves[i]
          fc == board_call(env, "forecast_move", path, game.active, 0)
      IN  IF ~fc.ok THEN Raise("BoardError", fc.env)
          ELSE
            LET r == alphabeta(fn, forecast_move(game, move), depth - 1, alpha, beta,
                               ~maximizing_player, Append(path, move), fc.env)
            IN  IF r.st # "ok" THEN r
                ELSE IF improves(maximizing_player, r.u, best_utility)
                THEN IF cutoff(maximizing_player, r.u, alpha, beta)
                     THEN Return(r.u, best_move, r.env)
                     ELSE alphabeta_loop(fn, game, depth,
                                         IF maximizing_player THEN Max(alpha, r.u) ELSE alpha,
                                         IF maximizing_player THEN beta ELSE Min(beta, r.u),
                                         maximizing_player, path, moves, i + 1,
                                         r.u, move, r.env)
                ELSE alphabeta_loop(fn, game, depth, alpha, beta, maximizing_player,
                                    path, moves, i + 1, best_utility, best_move, r.env)

\* the for loop of alphabeta from its i-th move on
alphabeta_loop(fn, game, depth, alpha, beta, maximizing_player, path, moves, i, best_utility, best_move, env) ==
    IF i > Len(moves) THEN Return(best_utility, best_move, env)
    ELSE
      LET move == moves[i]
          fc == board_call(env, "forecast_move", path, game.active, 0)
      IN  IF ~fc.ok THEN Raise("BoardError", fc.env)
          ELSE
            LET r == alphabeta(fn, forecast_move(game, move), depth - 1, alpha, beta,
                               ~maximizing_player, Append(path, move), fc.env)
            IN  IF r.st # "ok" THEN r
                ELSE IF improves(maximizing_player, r.u, best_utility)
                THEN IF cutoff(maximizing_player, r.u, alpha, beta)
                     THEN Return(r.u, move, r.env)
                     ELSE alphabeta_loop(fn, game, depth,
                                         IF maximizing_player THEN Max(alpha, r.u) ELSE alpha,
                                         IF maximizing_player THEN beta ELSE Min(beta, r.u),
                                         maximizing_player, path, moves, i + 1,
                                         r.u, move, r.env)
                ELSE alphabeta_loop(fn, game, depth, alpha, beta, maximizing_player,
                                    path, moves, i + 1, best_utility, best_move, r.env)

alphabeta(fn, game, depth, alpha, beta, maximizing_player, path, env) ==
    LET t == time_left(env, path, depth, maximizing_player, alpha, beta)
    IN  IF timed_out(t.val) THEN Raise("Timeout", t.env)
        ELSE
          LET current_player == current_player_of(game, maximizing_player)
              lm == board_call(t.env, "get_legal_moves", path, game.active, 0)
              remaining_legal_moves == get_legal_moves(game, game.active)
          IN  IF ~lm.ok THEN Raise("BoardError", lm.env)
              ELSE IF remaining_legal_moves = <<>>
              THEN LET ut == board_call(lm.env, "utility", path, current_player,
                                        utility(game, current_player))
                   IN  IF ~ut.ok THEN Raise("BoardError", ut.env)
                       ELSE Return(utility(game, current_player), no_legal_moves, ut.env)
              ELSE IF depth = 0
              THEN Return(score(fn, game, current_player), remaining_legal_moves[1],
                          score_call(lm.env, path, current_player,
                                     score(fn, game, current_player)))
              ELSE alphabeta_loop(fn, game, depth, alpha, beta, maximizing_player, path,
                                  remaining_legal_moves, 1,
                                  initial_utility(maximizing_player), no_legal_moves,
                                  lm.env)

\* ------------------------------------------------------------ the program
VARIABLES
    game,       \* the board get_move and the searches are called on
    plies,      \* moves applied to the board so far
    cfg,        \* the CustomPlayer: method, iterative, search_depth, score_fn
    env,        \* the time_left callable, the board's faults, and the call log
    pc,         \* "idle", "search", "returned", "raised", "probed"
    depth,      \* get_move's local depth
    best_move,  \* get_move's local best_move (unbound until a search returns)
    ret,        \* the move get_move returned
    exc,        \* the exception that left get_move
    calls,      \* the searches get_move has invoked, with their outcomes
    probe       \* a direct call of minimax or alphabeta, with its outcome

vars == <<game, plies, cfg, env, pc, depth, best_move, ret, exc, calls, probe>>

DEFAULT_DEPTH == 3

Methods == {"minimax", "alphabeta", "negamax"}

Configs ==
    {c \in [method : Methods, iterative : BOOLEAN, search_depth : 0 .. MaxDepth,
            score_fn : ScoreFns] :
        c.iterative => c.search_depth = Min(DEFAULT_DEPTH, MaxDepth)}

\* board.apply_move on both starting locations, as run() does: the first
\* player on (0, 0), the second on (2, 2)
StartBoard ==
    [loc     |-> << <<0, 0>>, <<2, 2>> >>,
     blocked |-> { <<0, 0>>, <<2, 2>> },
     active  |-> 1]

\* no direct call was made
NoProbe ==
    [method |-> "none", depth |-> 0, maximizing_player |-> TRUE,
     alpha |-> 0, beta |-> 0, res |-> Raise("none", <<>>)]

\* the environments of a get_move call: any oracle with a board that works,
\* or a board whose k-th call raises under an oracle that never runs down
Envs ==
    {NewEnv(orc, {}) : orc \in Oracles} \cup
    {NewEnv(CHOOSE o \in Oracles : o.forever, {k}) : k \in 0 .. MaxFault}

InitCommon ==
    /\ game = StartBoard
    /\ plies = 0
    /\ pc = "idle"
    /\ depth = 0
    /\ best_move = unbound
    /\ ret = unbound
    /\ exc = "none"
    /\ calls = <<>>
    /\ probe = NoProbe

Init ==
    /\ InitCommon
    /\ cfg \in Configs
    /\ env \in Envs

\* the game moves on before the agent is asked: board.apply_move(move)
ApplyMove ==
    /\ pc = "idle"
    /\ plies < MaxPlies
    /\ \E i \in 1 .. Len(get_legal_moves(game, game.active)) :
          game' = forecast_move(game, get_legal_moves(game, game.active)[i])
    /\ plies' = plies + 1
    /\ UNCHANGED <<cfg, env, pc, depth, best_move, ret, exc, calls, probe>>

\* mutant of GetMove: the search is entered without looking at legal_moves
GetMove_without_check ==
    /\ pc = "idle"
    /\ pc' = "search"
    /\ depth' = IF cfg.iterative THEN 0 ELSE cfg.search_depth
    /\ UNCHANGED <<game, plies, cfg, env, best_move, ret, exc, calls, probe>>

\* mutant of GetMove: iterative deepening starts from search_depth
GetMove_from_search_depth ==
    /\ pc = "idle"
    /\ LET legal_moves == get_legal_moves(game, game.active)
       IN  IF legal_moves = <<>>
           THEN /\ pc' = "returned"
                /\ ret' = no_legal_moves
                /\ depth' = depth
           ELSE /\ pc' = "search"
                /\ ret' = ret
                /\ depth' = cfg.search_depth
    /\ UNCHANGED <<game, plies, cfg, env, best_move, exc, calls, probe>>

\* get_move up to its try block
GetMove ==
    /\ pc = "idle"
    /\ LET legal_moves == get_legal_moves(game, game.active)
       IN  IF legal_moves = <<>>
           THEN /\ pc' = "returned"
                /\ ret' = no_legal_moves
                /\ depth' = depth
           ELSE /\ pc' = "search"
                /\ ret' = ret
                /\ depth' = IF cfg.iterative THEN 0 ELSE cfg.search_depth
    /\ UNCHANGED <<game, plies, cfg, env, best_move, exc, calls, probe>>

\* the search the configured method names, from the root with default bounds
search(c, g, d, e) ==
    IF c.method = "minimax" THEN minimax(c.score_fn, g, d, TRUE, <<>>, e)
    ELSE IF c.method = "alphabeta"
    THEN alphabeta(c.score_fn, g, d, -inf, inf, TRUE, <<>>, e)
    ELSE Raise("ValueError", e)

Call(d, r) == [depth |-> d, st |-> r.st, u |-> r.u, m |-> r.m]

\* mutant of except_Timeout: the handler returns (-1, -1)
except_Timeout_no_move(bm) ==
    [pc |-> "returned", ret |-> no_legal_moves, exc |-> "none"]

\* the handler of except Timeout: return best_move, bound or not
except_Timeout(bm) ==
    IF bm = unbound THEN [pc |-> "raised", ret |-> unbound, exc |-> "UnboundLocalError"]
    ELSE [pc |-> "returned", ret |-> bm, exc |-> "none"]

\* mutant of Leave: a bare except, every failure is handled like Timeout
Leave_catch_all(r, bm) ==
    IF bm = unbound THEN [pc |-> "raised", ret |-> unbound, exc |-> "UnboundLocalError"]
    ELSE [pc |-> "returned", ret |-> bm, exc |-> "none"]

\* how a search that did not return leaves get_move
Leave(r, bm) ==
    IF r.st = "Timeout" THEN except_Timeout(bm)
    ELSE [pc |-> "raised", ret |-> unbound, exc |-> r.st]

\* self.time_left() <= 0.001 between two depths
loop_expired(t) == t <= LOOP_THRESHOLD

\* one pass of the while True loop of iterative deepening
IterativeStep ==
    /\ pc = "search"
    /\ cfg.iterative
    /\ depth < MaxDepth
    /\ LET r == search(cfg, game, depth + 1, env)
           t == time_left(r.env, <<>>, depth + 1, TRUE, 0, 0)
       IN  /\ depth' = depth + 1
           /\ calls' = Append(calls, Call(depth + 1, r))
           /\ IF r.st = "ok"
              THEN /\ best_move' = r.m
                   /\ env' = [t.env EXCEPT !.log = Append(r.env.log,
                                 Ev("loop_time_left", <<>>, 0, depth + 1, TRUE, 0, 0, t.val))]
                   /\ exc' = exc
                   /\ IF loop_expired(t.val)
                      THEN pc' = "returned" /\ ret' = r.m
                      ELSE pc' = "search" /\ ret' = ret
              ELSE /\ best_move' = best_move
                   /\ env' = r.env
                   /\ pc' = Leave(r, best_move).pc
                   /\ ret' = Leave(r, best_move).ret
                   /\ exc' = Leave(r, best_move).exc
    /\ UNCHANGED <<game, plies, cfg, probe>>

\* the single search of fixed-depth mode
FixedSearch ==
    /\ pc = "search"
    /\ ~cfg.iterative
    /\ LET r == search(cfg, game, depth, env)
       IN  /\ calls' = Append(calls, Call(depth, r))
           /\ env' = r.env
           /\ IF r.st = "ok"
              THEN /\ best_move' = r.m
                   /\ pc' = "returned"
                   /\ ret' = r.m
                   /\ exc' = exc
              ELSE /\ best_move' = best_move
                   /\ pc' = Leave(r, best_move).pc
                   /\ ret' = Leave(r, best_move).ret
                   /\ exc' = Leave(r, best_move).exc
    /\ UNCHANGED <<game, plies, cfg, depth, probe>>

Next == ApplyMove \/ GetMove \/ IterativeStep \/ FixedSearch

Spec == Init /\ [][Next]_vars

\* a step of the try block of get_move, told by what it does to pc and depth:
\* among the steps of Next these are the steps of IterativeStep and FixedSearch
Proceed ==
    /\ pc = "search"
    /\ cfg.iterative => depth < MaxDepth
    /\ pc' \in {"search", "returned", "raised"}
    /\ depth' = IF cfg.iterative THEN depth + 1 ELSE depth

\* get_move is sequential code: once entered, its next search is carried out
LiveSpec == Spec /\ WF_<<pc, depth>>(Proceed)

\* ------------------------------------------- direct calls of the searches
\* CustomPlayer() as constructed by default, with either score function
DefaultConfigs ==
    {c \in Configs : c.method = "minimax" /\ c.iterative}

ForeverEnv == NewEnv(CHOOSE o \in Oracles : o.forever, {})

\* a board that works, under an oracle that never runs down or one that
\* drops below the threshold after `above` readings
SearchEnvs ==
    {ForeverEnv} \cup
    {NewEnv(o, {}) : o \in {x \in Oracles : ~x.forever /\ x.at = 0 /\ x.short = 1}}

\* the (alpha, beta) pairs alphabeta is called with directly
Windows == { <<-inf, inf>>, <<-1, 1>> }

InitSearch ==
    /\ InitCommon
    /\ cfg \in DefaultConfigs
    /\ env \in SearchEnvs

\* agent.minimax(game, depth, maximizing_player)
CallMinimax ==
    /\ pc = "idle"
    /\ \E d \in 0 .. MaxDepth, mx \in BOOLEAN :
          probe' = [method |-> "minimax", depth |-> d, maximizing_player |-> mx,
                    alpha |-> -inf, beta |-> inf,
                    res |-> minimax(cfg.score_fn, game, d, mx, <<>>, env)]
    /\ pc' = "probed"
    /\ UNCHANGED <<game, plies, cfg, env, depth, best_move, ret, exc, calls>>

\* agent.alphabeta(game, depth, alpha, beta, maximizing_player)
CallAlphabeta ==
    /\ pc = "idle"
    /\ \E d \in 0 .. MaxDepth, mx \in BOOLEAN, w \in Windows :
          probe' = [method |-> "alphabeta", depth |-> d, maximizing_player |-> mx,
                    alpha |-> w[1], beta |-> w[2],
                    res |-> alphabeta(cfg.score_fn, game, d, w[1], w[2], mx, <<>>, env)]
    /\ pc' = "probed"
    /\ UNCHANGED <<game, plies, cfg, env, depth, best_move, ret, exc, calls>>

NextSearch == ApplyMove \/ CallMinimax \/ CallAlphabeta

SearchSpec == InitSearch /\ [][NextSearch]_vars

\* ================================================================= claims
\* what the claims read off a state
LegalMoves == get_legal_moves(game, game.active)
Probed == pc = "probed" /\ probe.res.st = "ok"
DefaultBounds == probe.alpha = -inf /\ probe.beta = inf
ProbeLog == probe.res.env.log

\* the value the probed search method gives the successor by move m, searched
\* one ply shallower on the opposite layer with the bounds of the probe
ChildValue(m) ==
    IF probe.method = "minimax"
    THEN minimax(cfg.score_fn, forecast_move(game, m), probe.depth - 1,
                 ~probe.maximizing_player, <<m>>, ForeverEnv).u
    ELSE alphabeta(cfg.score_fn, forecast_move(game, m), probe.depth - 1,
                   probe.alpha, probe.beta, ~probe.maximizing_player, <<m>>,
                   ForeverEnv).u

\* minimax called on the probed state as the probe called alphabeta
MinimaxOfProbe ==
    minimax(cfg.score_fn, game, probe.depth, probe.maximizing_player, <<>>, env)

\* C1: on a non-terminal state, at any depth and with any score function, when
\* no timeout occurs alphabeta called with the default bounds on a maximizing
\* layer returns the utility minimax returns.
C1_AlphabetaUtilityIsMinimaxUtility ==
    (/\ Probed
     /\ probe.method = "alphabeta"
     /\ DefaultBounds
     /\ probe.maximizing_player
     /\ LegalMoves # <<>>
     /\ MinimaxOfProbe.st = "ok")
    => probe.res.u = MinimaxOfProbe.u

\* C1 witness: alphabeta returned after visiting fewer nodes than minimax
C1_Witness ==
    /\ Probed
    /\ probe.method = "alphabeta"
    /\ DefaultBounds
    /\ probe.maximizing_player
    /\ LegalMoves # <<>>
    /\ probe.depth >= 2
    /\ MinimaxOfProbe.st = "ok"
    /\ Len(ProbeLog) < Len(MinimaxOfProbe.env.log)
    /\ probe.res.u = MinimaxOfProbe.u

\* C5: on a state whose active player has no legal move, at any depth and on
\* either layer, minimax and alphabeta return the utility of the board for the
\* active player (maximizing layer) or the inactive player (minimizing layer)
\* with the move (-1, -1), and the score function is not called.
C5_TerminalNodeReturnsUtility ==
    (Probed /\ LegalMoves = <<>>)
    => /\ probe.res.u = (IF probe.maximizing_player THEN -inf ELSE inf)
       /\ probe.res.u = utility(game, IF probe.maximizing_player
                                      THEN game.active ELSE inactive_player(game))
       /\ probe.res.m = no_legal_moves
       /\ \A i \in 1 .. Len(ProbeLog) : ProbeLog[i].op # "score"
       /\ ProbeLog[Len(ProbeLog)].op = "utility"

\* C5 witness: a search returned from a terminal state at depth 0 on a
\* minimizing layer
C5_Witness ==
    /\ Probed
    /\ LegalMoves = <<>>
    /\ probe.depth = 0
    /\ ~probe.maximizing_player
    /\ probe.method = "alphabeta"
    /\ probe.res.u = inf

\* C7: on a state with exactly one legal move m, at any depth >= 1, minimax
\* and alphabeta return m, with the utility of the search of forecast(m) one
\* ply shallower on the opposite layer.
C7_SingleMoveIsReturned ==
    (Probed /\ Len(LegalMoves) = 1 /\ probe.depth >= 1)
    => /\ probe.res.m = LegalMoves[1]
       /\ probe.res.u = ChildValue(LegalMoves[1])

\* C10: at a non-terminal node with depth >= 1 minimax returns the maximum
\* (maximizing layer) or minimum (minimizing layer) of its children's values
\* and the earliest legal move whose value is that utility, which is always
\* one of the node's legal moves.
C10_MinimaxReturnsEarliestBest ==
    (Probed /\ probe.method = "minimax" /\ LegalMoves # <<>> /\ probe.depth >= 1)
    => LET n == Len(LegalMoves)
           val == [i \in 1 .. n |-> ChildValue(LegalMoves[i])]
       IN  /\ \A i \in 1 .. n :
                 IF probe.maximizing_player THEN probe.res.u >= val[i]
                 ELSE probe.res.u <= val[i]
           /\ \E i \in 1 .. n :
                 /\ val[i] = probe.res.u
                 /\ \A j \in 1 .. i - 1 : val[j] # probe.res.u
                 /\ probe.res.m = LegalMoves[i]

\* ------------------------------------------------------ claims on get_move
Left == pc \in {"returned", "raised"}
ValidMethod == cfg.method \in {"minimax", "alphabeta"}
IsLegal(m) == \E i \in 1 .. Len(LegalMoves) : LegalMoves[i] = m
Log == env.log
LastCall == calls[Len(calls)]

\* C2: whatever the state, method, mode (iterative, or fixed depth >= 1),
\* score function and deadline, the move get_move returns is a legal move of
\* the active player or (-1, -1), and it is (-1, -1) exactly when there is no
\* legal move.
C2_ReturnedMoveIsLegal ==
    (pc = "returned" /\ (cfg.iterative \/ cfg.search_depth >= 1))
    => /\ ret = no_legal_moves \/ IsLegal(ret)
       /\ ret = no_legal_moves <=> LegalMoves = <<>>

\* C3: when the first reading of the deadline, taken on entry to the first
\* search node, is at or below the threshold, get_move still returns a legal
\* move or (-1, -1): no exception leaves it.
C3_ExpiredDeadlineStillReturns ==
    (/\ Left
     /\ ValidMethod
     /\ env.fault = {}
     /\ reading(env.orc, 0) <= TIMER_THRESHOLD)
    => /\ pc = "returned"
       /\ ret = no_legal_moves \/ IsLegal(ret)

\* C4: in iterative mode, when the search at depth d+1 is aborted by the
\* timeout after the searches at depths 1..d returned, get_move returns the
\* move the depth-d search returned, which is the move that search returns
\* on its own: the aborted pass changes nothing.
C4_TimeoutReturnsLastCompletedDepth ==
    (/\ Left
     /\ cfg.iterative
     /\ Len(calls) >= 2
     /\ LastCall.st = "Timeout")
    => /\ pc = "returned"
       /\ calls[Len(calls) - 1].st = "ok"
       /\ calls[Len(calls) - 1].depth = LastCall.depth - 1
       /\ ret = calls[Len(calls) - 1].m
       /\ ret = search(cfg, game, LastCall.depth - 1, ForeverEnv).m

\* C4 witness: depths 1 and 2 returned, depth 3 was aborted below its root,
\* and get_move returned the legal move of depth 2
C4_Witness ==
    /\ pc = "returned"
    /\ cfg.iterative
    /\ Len(calls) = 3
    /\ LastCall.st = "Timeout"
    /\ Log[Len(Log)].path # <<>>
    /\ IsLegal(ret)
    /\ ret = calls[2].m

\* C6: when the active player has no legal move get_move returns (-1, -1) at
\* once: it invokes no search and never reads the deadline, whatever the
\* method, the mode and the time left.
C6_NoLegalMovesReturnsAtOnce ==
    (pc # "idle" /\ LegalMoves = <<>>)
    => /\ pc = "returned"
       /\ ret = no_legal_moves
       /\ calls = <<>>
       /\ env.q = 0
       /\ Log = <<>>

\* C6 witness: get_move returned on a board without legal moves, configured
\* with an invalid method and an oracle that has run down
C6_Witness ==
    /\ pc = "returned"
    /\ LegalMoves = <<>>
    /\ ~ValidMethod
    /\ reading(env.orc, 0) < TIMER_THRESHOLD
    /\ ret = no_legal_moves

\* C8 as claimed: a reading at or below TIMER_THRESHOLD on entry to a node
\* aborts the node before any other call.
C8_AtOrBelowThresholdAborts ==
    \A i \in 1 .. Len(Log) :
        (Log[i].op = "time_left" /\ Log[i].val <= TIMER_THRESHOLD)
        => /\ i = Len(Log)
           /\ LastCall.st = "Timeout"

\* C8 as amended: every node of minimax and alphabeta reads the deadline before
\* any other call, and aborts with Timeout, calling nothing else, exactly when
\* the reading is strictly below TIMER_THRESHOLD.
C8_BelowThresholdAborts ==
    /\ \A i \in 1 .. Len(Log) :
          (Log[i].op = "time_left" /\ Log[i].val < TIMER_THRESHOLD)
          => /\ i = Len(Log)
             /\ LastCall.st = "Timeout"
    /\ \A i \in 1 .. Len(Log) :
          (Log[i].op = "time_left" /\ Log[i].val >= TIMER_THRESHOLD)
          => /\ i < Len(Log)
             /\ Log[i + 1].op = "get_legal_moves"
             /\ Log[i + 1].path = Log[i].path
    /\ \A i \in 1 .. Len(Log) :
          Log[i].op = "get_legal_moves"
          => /\ i > 1
             /\ Log[i - 1].op = "time_left"
             /\ Log[i - 1].path = Log[i].path
    /\ \A i \in 1 .. Len(Log) :
          Log[i].op \in {"utility", "score", "forecast_move"}
          => \E j \in 1 .. i - 1 :
                /\ Log[j].op = "get_legal_moves"
                /\ Log[j].path = Log[i].path
    /\ \A k \in 1 .. Len(calls) :
          calls[k].st = "Timeout"
          => /\ k = Len(calls)
             /\ Log[Len(Log)].op = "time_left"
             /\ Log[Len(Log)].val < TIMER_THRESHOLD

\* C8 witness: a node below the root read exactly TIMER_THRESHOLD and went on,
\* and a later node read less and aborted
C8_Witness ==
    /\ Left
    /\ calls # <<>>
    /\ LastCall.st = "Timeout"
    /\ \E i \in 1 .. Len(Log) - 1 :
          /\ Log[i].op = "time_left"
          /\ Log[i].val = TIMER_THRESHOLD
          /\ Log[i].path # <<>>
    /\ Log[Len(Log)].path # <<>>

\* C9: Timeout is the only failure get_move absorbs.  With legal moves at
\* hand, a method other than 'minimax' and 'alphabeta' leaves get_move as
\* ValueError, and an error raised by a board operation during the search
\* leaves it unchanged; neither is turned into a returned move.
C9_OnlyTimeoutIsAbsorbed ==
    /\ (Left /\ ~ValidMethod /\ LegalMoves # <<>>)
       => pc = "raised" /\ exc = "ValueError" /\ ret = unbound
    /\ \A k \in 1 .. Len(calls) :
          calls[k].st \notin {"ok", "Timeout"}
          => /\ k = Len(calls)
             /\ pc = "raised"
             /\ exc = calls[k].st
             /\ ret = unbound
    /\ (Left /\ calls # <<>> /\ Log # <<>> /\ env.n - 1 \in env.fault)
       => pc = "raised" /\ exc = "BoardError"

\* C9 witness: the board's utility raised below the root of a search, and the
\* error left get_move
C9_Witness ==
    /\ pc = "raised"
    /\ exc = "BoardError"
    /\ Log[Len(Log)].op = "utility"
    /\ Log[Len(Log)].path # <<>>

\* ------------------------------------------------- claims on the call log
\* the state a search node works on: the root state after the moves of path
RECURSIVE StateAt(_, _)
StateAt(g, path) ==
    IF path = <<>> THEN g
    ELSE StateAt(forecast_move(g, Head(path)), Tail(path))

\* the index of the time_left reading a node at path took on entry, 0 if none
EntryOf(log, path) ==
    IF \E i \in 1 .. Len(log) : log[i].op = "time_left" /\ log[i].path = path
    THEN CHOOSE i \in 1 .. Len(log) : log[i].op = "time_left" /\ log[i].path = path
    ELSE 0

\* C11: a node at depth 0 whose active player has a legal move returns the
\* score of the state for its current player with the first legal move,
\* without recursing; in any search the score function is called only at such
\* nodes, never on a state whose active player has no legal move.
C11_DepthZeroReturnsScoreAndFirstMove ==
    /\ (Probed /\ probe.depth = 0 /\ LegalMoves # <<>>)
       => /\ probe.res.u = score(cfg.score_fn, game,
                                 current_player_of(game, probe.maximizing_player))
          /\ probe.res.m = LegalMoves[1]
          /\ Len(ProbeLog) = 3
          /\ ProbeLog[3].op = "score"
          /\ \A i \in 1 .. Len(ProbeLog) : ProbeLog[i].op # "forecast_move"
    /\ pc = "probed"
       => \A i \in 1 .. Len(ProbeLog) :
             ProbeLog[i].op = "score"
             => /\ EntryOf(ProbeLog, ProbeLog[i].path) # 0
                /\ ProbeLog[EntryOf(ProbeLog, ProbeLog[i].path)].depth = 0
                /\ Len(ProbeLog[i].path) = probe.depth
                /\ get_legal_moves(StateAt(game, ProbeLog[i].path),
                                   StateAt(game, ProbeLog[i].path).active) # <<>>

\* C11 witness: a search of depth >= 2 returned after scoring a node at depth 0
\* and after reaching a node without legal moves, where it asked the utility
C11_Witness ==
    /\ Probed
    /\ probe.depth >= 2
    /\ \E i \in 1 .. Len(ProbeLog) :
          ProbeLog[i].op = "score" /\ ProbeLog[i].val # 0
    /\ \E i \in 1 .. Len(ProbeLog) : ProbeLog[i].op = "utility"

\* the entries of the nodes a search visited, in the order it visited them
IsEntry(e) == e.op = "time_left"
Entries(log) == SelectSeq(log, IsEntry)
Nodes(log) == [i \in 1 .. Len(Entries(log)) |-> Entries(log)[i].path]

\* the entries of the children of the node at path that the search visited
ChildEntries(log, path) ==
    LET IsChild(e) == /\ e.op = "time_left"
                      /\ Len(e.path) = Len(path) + 1
                      /\ SubSeq(e.path, 1, Len(path)) = path
    IN  SelectSeq(log, IsChild)

RECURSIVE IsSubsequence(_, _)
IsSubsequence(a, b) ==
    IF a = <<>> THEN TRUE
    ELSE IF b = <<>> THEN FALSE
    ELSE IF Head(a) = Head(b) THEN IsSubsequence(Tail(a), Tail(b))
    ELSE IsSubsequence(a, Tail(b))

\* the value alphabeta returns for the node of an entry, given time
ValueOf(e) ==
    alphabeta(cfg.score_fn, StateAt(game, e.path), e.depth, e.alpha, e.beta, e.mx,
              e.path, ForeverEnv).u

\* minimax on the probed state, run to its end
MinimaxNodes ==
    Nodes(minimax(cfg.score_fn, game, probe.depth, probe.maximizing_player, <<>>,
                  ForeverEnv).env.log)

\* C12: alphabeta examines the children of a node in the order of its legal
\* moves; on a maximizing layer it examines no child after one whose value
\* brought the best utility to beta or above, on a minimizing layer none after
\* one that brought it to alpha or below, and a search that returns leaves out
\* children only after such a child.  The nodes alphabeta visits are a
\* subsequence of the nodes minimax visits on the same state at the same depth.
C12_AlphabetaVisitsSubsequenceOfMinimax ==
    (pc = "probed" /\ probe.method = "alphabeta")
    => /\ IsSubsequence(Nodes(ProbeLog), MinimaxNodes)
       /\ \A n \in 1 .. Len(Entries(ProbeLog)) :
             LET e == Entries(ProbeLog)[n]
                 moves == get_legal_moves(StateAt(game, e.path),
                                          StateAt(game, e.path).active)
                 kids == ChildEntries(ProbeLog, e.path)
                 cuts(c) == IF e.mx THEN ValueOf(c) >= e.beta
                            ELSE ValueOf(c) <= e.alpha
             IN  /\ Len(kids) <= Len(moves)
                 /\ \A j \in 1 .. Len(kids) : kids[j].path = Append(e.path, moves[j])
                 /\ \A j \in 1 .. Len(kids) - 1 : ~cuts(kids[j])
                 /\ (probe.res.st = "ok" /\ e.depth > 0 /\ Len(kids) < Len(moves))
                    => Len(kids) > 0 /\ cuts(kids[Len(kids)])

\* C12 witness: alphabeta, called with the default bounds, returned having
\* left out a child of a node below the root whose alpha a sibling had
\* raised, and minimax visited more nodes
C12_Witness ==
    /\ Probed
    /\ probe.method = "alphabeta"
    /\ DefaultBounds
    /\ \E n \in 1 .. Len(Entries(ProbeLog)) :
          LET e == Entries(ProbeLog)[n]
          IN  /\ e.path # <<>>
              /\ e.depth > 0
              /\ e.alpha > -inf
              /\ Len(ChildEntries(ProbeLog, e.path)) > 0
              /\ Len(ChildEntries(ProbeLog, e.path)) <
                    Len(get_legal_moves(StateAt(game, e.path), StateAt(game, e.path).active))
    /\ Len(Nodes(ProbeLog)) < Len(MinimaxNodes)

\* ------------------------------------------- claims on the order of calls
\* the entries of the roots of the searches get_move invoked
IsRootEntry(e) == e.op = "time_left" /\ e.path = <<>>
RootEntries == SelectSeq(Log, IsRootEntry)

\* what C13 says of a state
SearchesInOrder ==
    /\ ValidMethod
       => /\ Len(RootEntries) = Len(calls)
          /\ \A k \in 1 .. Len(calls) : RootEntries[k].depth = calls[k].depth
    /\ ~ValidMethod => RootEntries = <<>>
    /\ (cfg.iterative /\ pc # "idle")
       => /\ \A k \in 1 .. Len(calls) : calls[k].depth = k
          /\ depth = Len(calls)
    /\ ~cfg.iterative
       => /\ Len(calls) <= 1
          /\ \A k \in 1 .. Len(calls) : calls[k].depth = cfg.search_depth
          /\ (Left /\ LegalMoves # <<>>) => Len(calls) = 1
          /\ (pc = "returned" /\ LegalMoves # <<>>)
             => calls[1].st = "ok" /\ ret = calls[1].m

\* C13: with iterative=True get_move invokes the configured search at depths
\* 1, 2, 3, ... in this order, whatever search_depth is, and every time on the
\* root state it was given; with iterative=False it invokes the search once,
\* at depth search_depth, and the move it returns is that search's move.
C13_SearchesInvokedInOrder ==
    /\ []SearchesInOrder
    /\ [][pc = "search" => game' = game]_vars

\* C13 witness: iterative deepening has invoked the search three times, at
\* depths 1, 2 and 3, with search_depth left at its default
C13_Witness ==
    /\ cfg.iterative
    /\ cfg.search_depth = DEFAULT_DEPTH
    /\ Len(calls) = 3
    /\ calls[1].depth = 1 /\ calls[2].depth = 2 /\ calls[3].depth = 3
    /\ calls[3].st = "ok"

\* ------------------------------------------------- claims on termination
\* a call of get_move that C14 says returns: a search method that exists, a
\* board that works, and in iterative mode a deadline that runs down
Entered ==
    /\ pc = "search"
    /\ ValidMethod
    /\ env.fault = {}
    /\ ~cfg.iterative \/ ~env.orc.forever

\* the iterative loop is left by the deadline alone: by Timeout, or by the
\* reading between two depths; while the deadline never runs down it is not left
DeadlineEndsLoop ==
    (cfg.iterative /\ ValidMethod /\ env.fault = {} /\ calls # <<>>)
    => /\ Left => \/ LastCall.st = "Timeout"
                  \/ /\ Log[Len(Log)].op = "loop_time_left"
                     /\ loop_expired(Log[Len(Log)].val)
       /\ env.orc.forever => ~Left

\* get_move is left, by a return or by an exception
C14_GetMoveEventuallyLeaves == Entered ~> Left

\* C14: every call of get_move eventually returns, in fixed-depth mode under
\* any deadline and in iterative mode when the deadline runs down for good;
\* nothing but the deadline ends the iterative loop.
C14_GetMoveEventuallyReturns ==
    /\ Entered ~> (pc = "returned")
    /\ []DeadlineEndsLoop

\* ------------------------------------------------ claims on alpha and beta
\* C15: in an alphabeta search started with alpha = -inf and beta = +inf,
\* every node entered, at any depth, has alpha strictly less than beta, also
\* after utilities of +inf or -inf were returned.
C15_AlphaBelowBetaAtEveryNode ==
    (pc = "probed" /\ probe.method = "alphabeta" /\ DefaultBounds)
    => \A n \in 1 .. Len(Entries(ProbeLog)) :
          Entries(ProbeLog)[n].alpha < Entries(ProbeLog)[n].beta

\* C15 witness: after the board had given a utility of +inf or -inf, a node
\* was entered with a bound that the search had tightened
C15_Witness ==
    /\ Probed
    /\ probe.method = "alphabeta"
    /\ DefaultBounds
    /\ \E i \in 1 .. Len(ProbeLog) :
          /\ ProbeLog[i].op = "utility"
          /\ ProbeLog[i].val \in {-inf, inf}
          /\ \E j \in i + 1 .. Len(ProbeLog) :
                /\ ProbeLog[j].op = "time_left"
                /\ ProbeLog[j].alpha > -inf \/ ProbeLog[j].beta < inf
                /\ ProbeLog[j].alpha < ProbeLog[j].beta

\* C16: on any state, at any depth and with any score function, when no
\* timeout occurs alphabeta called at the root with the default bounds
\* returns the move minimax returns, not only its utility.
C16_AlphabetaMoveIsMinimaxMove ==
    (/\ Probed
     /\ probe.method = "alphabeta"
     /\ DefaultBounds
     /\ MinimaxOfProbe.st = "ok")
    => /\ probe.res.m = MinimaxOfProbe.m
       /\ probe.res.u = MinimaxOfProbe.u

\* C16 witness: on a maximizing root with several legal moves alphabeta
\* visited fewer nodes than minimax and returned minimax's move, which is not
\* the first legal move
C16_Witness ==
    /\ Probed
    /\ probe.method = "alphabeta"
    /\ DefaultBounds
    /\ probe.maximizing_player
    /\ probe.depth >= 2
    /\ Len(LegalMoves) >= 2
    /\ MinimaxOfProbe.st = "ok"
    /\ Len(Nodes(ProbeLog)) < Len(Nodes(MinimaxOfProbe.env.log))
    /\ probe.res.m = MinimaxOfProbe.m
    /\ probe.res.m # LegalMoves[1]
    /\ probe.res.m # no_legal_moves

\* ------------------------------------------------ claims on the evaluated player
IsEvaluation(e) == e.op \in {"utility", "score"}

\* C17: throughout a minimax or alphabeta search started on a maximizing
\* root, every call of game.utility and of the score function, on every
\* layer, is made for the player who is active at the root.
C17_EveryEvaluationIsForRootPlayer ==
    (pc = "probed" /\ probe.maximizing_player)
    => \A i \in 1 .. Len(ProbeLog) :
          IsEvaluation(ProbeLog[i])
          => /\ ProbeLog[i].player = game.active
             /\ ProbeLog[i].player =
                   current_player_of(StateAt(game, ProbeLog[i].path),
                                     Len(ProbeLog[i].path) % 2 = 0)

\* C17 witness: a search from a maximizing root evaluated a node of a
\* minimizing layer and a node of a maximizing layer below the root
C17_Witness ==
    /\ Probed
    /\ probe.maximizing_player
    /\ \E i \in 1 .. Len(ProbeLog) :
          IsEvaluation(ProbeLog[i]) /\ Len(ProbeLog[i].path) % 2 = 1
    /\ \E i \in 1 .. Len(ProbeLog) :
          /\ IsEvaluation(ProbeLog[i])
          /\ Len(ProbeLog[i].path) % 2 = 0
          /\ ProbeLog[i].path # <<>>
    /\ \A i \in 1 .. Len(ProbeLog) :
          IsEvaluation(ProbeLog[i]) => ProbeLog[i].player = game.active

====
